---- MODULE Spec2Model ----
(***************************************************************************)
(* Model of chrome-takeout-to-firefox: the import driver (main), the visit *)
(* recorder (FirefoxHistoryBatch::insert_visit), the place and origin      *)
(* resolvers (find_or_insert_place, find_or_insert_origin), the guid       *)
(* generator and the URL hasher (hash::hash, hash::hash_simple).           *)
(*                                                                         *)
(* Text is a sequence of byte values.  Option<T> is <<>> (None / NULL) or  *)
(* <<x>> (Some(x)).  A u32 is four bytes, a u64 eight bytes, least         *)
(* significant byte first, so that the 32 and 64 bit arithmetic of the     *)
(* hasher keeps its width.                                                  *)
(***************************************************************************)
EXTENDS Integers, Sequences, FiniteSets, TLC

VARIABLES
    db,         \* the database file: what has been committed
    tx,         \* the database as the open transaction sees it
    src,        \* takeout.history, the entries of the source file
    i,          \* number of entries of src this run has taken
    pc,         \* where main is: "loop", "entry", "commit", or how it ended
    run,        \* the number of this run of main over src
    committed,  \* number of entries whose batch this run has committed
    faults,     \* number of statements of entries that have returned an error
    trace,      \* per entry taken in this run: the call that failed, the
                \* random bytes, the outcome and whether it wrote a row
    prev,       \* the previous run: its last pc and committed, the entries
                \* it recorded, whether no statement failed in it (nofault)
                \* and in no run before this one (clean), and what the
                \* database would hold had nothing interrupted it (same)
    db0,        \* the database before the first run
    snap,       \* the database before this run
    hin,        \* the text handed to hash (HashSpec)
    hout        \* the result of hash (HashSpec)

vars ==
    <<db, tx, src, i, pc, run, committed, faults, trace, prev, db0, snap,
      hin, hout>>

(***************************************************************************)
(* Bounds of the model.                                                    *)
(***************************************************************************)
\* longest source sequence (entries of the "Browser History" array)
MaxLen == 3
\* entries per batch; stands for chunks(1000) of main
ChunkSize == 2
\* number of runs of main over the same source (first run and re-runs)
MaxRuns == 2
\* number of database calls that return an error in one behaviour
MaxFaults == 1
\* longest text handed to the hasher in HashSpec
MaxText == 4

None == <<>>

Some(x) == <<x>>

(***************************************************************************)
(* Bytes and fixed width integers.                                         *)
(***************************************************************************)
RECURSIVE BitXor(_, _, _)
\* a ^ b on the n low bits
BitXor(a, b, n) ==
    IF n = 0 THEN 0
    ELSE ((a + b) % 2) + 2 * BitXor(a \div 2, b \div 2, n - 1)

RECURSIVE BitAnd(_, _, _)
\* a & b on the n low bits
BitAnd(a, b, n) ==
    IF n = 0 THEN 0
    ELSE ((a % 2) * (b % 2)) + 2 * BitAnd(a \div 2, b \div 2, n - 1)

\* value as u32, for a byte value
U32OfByte(b) == <<b, 0, 0, 0>>

U32Zero == <<0, 0, 0, 0>>

\* a rotation by five bits to the right
RotateRight5(h) ==
    <<(h[1] \div 32) + ((h[2] % 32) * 8),
      (h[2] \div 32) + ((h[3] % 32) * 8),
      (h[3] \div 32) + ((h[4] % 32) * 8),
      (h[4] \div 32) + ((h[1] % 32) * 8)>>

\* u32::rotate_left(h, 5)
RotateLeft5(h) ==
    <<((h[1] % 8) * 32) + (h[4] \div 8),
      ((h[2] % 8) * 32) + (h[1] \div 8),
      ((h[3] % 8) * 32) + (h[2] \div 8),
      ((h[4] % 8) * 32) + (h[3] \div 8)>>

\* h ^ v on u32
Xor32(h, v) ==
    <<BitXor(h[1], v[1], 8), BitXor(h[2], v[2], 8),
      BitXor(h[3], v[3], 8), BitXor(h[4], v[4], 8)>>

\* the byte products of a * b that land on byte k (k = 1 is the lowest)
RECURSIVE ColumnSum(_, _, _, _)
ColumnSum(a, b, k, j) ==
    IF j > k THEN 0
    ELSE a[j] * b[k - j + 1] + ColumnSum(a, b, k, j + 1)

RECURSIVE MulBytes(_, _, _, _)
\* bytes k..4 of a * b given the carry into byte k; the carry out of byte 4
\* is dropped, which is the wrap of wrapping_mul
MulBytes(a, b, k, carry) ==
    IF k > 4 THEN <<>>
    ELSE LET s == ColumnSum(a, b, k, 1) + carry
         IN  <<s % 256>> \o MulBytes(a, b, k + 1, s \div 256)

\* a.wrapping_mul(b) on u32
WrappingMul(a, b) == MulBytes(a, b, 1, 0)

\* h as u64
U64OfU32(h) == h \o <<0, 0, 0, 0>>

\* the u64 mask 0x0000FFFF
Mask0000FFFF == <<255, 255, 0, 0, 0, 0, 0, 0>>

\* a & b on u64
And64(a, b) ==
    <<BitAnd(a[1], b[1], 8), BitAnd(a[2], b[2], 8),
      BitAnd(a[3], b[3], 8), BitAnd(a[4], b[4], 8),
      BitAnd(a[5], b[5], 8), BitAnd(a[6], b[6], 8),
      BitAnd(a[7], b[7], 8), BitAnd(a[8], b[8], 8)>>

\* a << 32 on u64: the four high bytes are shifted out
Shl32(a) == <<0, 0, 0, 0, a[1], a[2], a[3], a[4]>>

RECURSIVE AddBytes(_, _, _, _)
AddBytes(a, b, k, carry) ==
    IF k > 8 THEN <<>>
    ELSE LET s == a[k] + b[k] + carry
         IN  <<s % 256>> \o AddBytes(a, b, k + 1, s \div 256)

\* a + b on u64 (no overflow can happen in hash: the sum is below 2^48)
Add64(a, b) == AddBytes(a, b, 1, 0)

(***************************************************************************)
(* hash.rs                                                                 *)
(***************************************************************************)
\* 0x9E3779B9
GOLDEN_RATIO == <<185, 121, 55, 158>>

Colon == 58

\* one round of the loop of hash_simple:
\* hash = GOLDEN_RATIO.wrapping_mul(u32::rotate_left(hash, 5) ^ (value as u32))
Round(hash, value) ==
    WrappingMul(GOLDEN_RATIO, Xor32(RotateLeft5(hash), U32OfByte(value)))

\* the u32 values
IsU32(h) == Len(h) = 4 /\ \A k \in 1..4 : h[k] \in 0..255

RECURSIVE HashLoop(_, _, _, _)
\* the loop of hash_simple over the bytes lo..hi of text, in order, from
\* the accumulator hash, which is a u32 after every round (the range is
\* halved, and the first half done before the second, to keep the
\* evaluation shallow)
HashLoop(text, lo, hi, hash) ==
    IF lo > hi THEN hash
    ELSE IF lo = hi THEN Round(hash, text[lo])
    ELSE LET mid == (lo + hi) \div 2
             half == HashLoop(text, lo, mid, hash)
         IN  IF IsU32(half) THEN HashLoop(text, mid + 1, hi, half)
             ELSE U32Zero

\* fn hash_simple(text: &str) -> u64
hash_simple(text) == U64OfU32(HashLoop(text, 1, Len(text), U32Zero))

\* a search that answers the start of the text when c is not in it
Find_OrStart(text, c) ==
    IF \E k \in 1..Len(text) : text[k] = c
    THEN Some((CHOOSE k \in 1..Len(text) :
                  /\ text[k] = c
                  /\ \A j \in 1..(k - 1) : text[j] # c) - 1)
    ELSE Some(0)

\* url.find(':'): the index of the first ':' as Some(n), n bytes before it
Find(text, c) ==
    IF \E k \in 1..Len(text) : text[k] = c
    THEN Some((CHOOSE k \in 1..Len(text) :
                  /\ text[k] = c
                  /\ \A j \in 1..(k - 1) : text[j] # c) - 1)
    ELSE None

\* pub fn hash(url: &str) -> anyhow::Result<u64>; None is the Err
hash(url) ==
    LET prefix == Find(url, Colon)
    IN  IF prefix = None THEN None
        ELSE Some(Add64(Shl32(And64(hash_simple(SubSeq(url, 1, prefix[1])),
                                    Mask0000FFFF)),
                         hash_simple(url)))

(***************************************************************************)
(* Text.                                                                   *)
(***************************************************************************)
\* "https"
s_https == <<104, 116, 116, 112, 115>>

\* "http"
s_http == <<104, 116, 116, 112>>

\* "ftp"
s_ftp == <<102, 116, 112>>

\* "ws"
s_ws == <<119, 115>>

\* "wss"
s_wss == <<119, 115, 115>>

\* "chrome"
s_chrome == <<99, 104, 114, 111, 109, 101>>

\* "about"
s_about == <<97, 98, 111, 117, 116>>

\* "://"
s_sep == <<58, 47, 47>>

\* "//"
s_slashes == <<47, 47>>

\* "h", a host name
s_h == <<104>>

\* "/a"
s_a == <<47, 97>>

\* "/a/"
s_a_slash == <<47, 97, 47>>

\* "blank"
s_blank == <<98, 108, 97, 110, 107>>

\* "T", a page title
s_T == <<84>>

RECURSIVE Rev(_)
\* .chars().rev().collect() on ASCII text
Rev(text) ==
    IF text = <<>> THEN <<>> ELSE Rev(Tail(text)) \o <<Head(text)>>

RECURSIVE Decimal(_)
\* the Display of an unsigned integer
Decimal(n) ==
    IF n < 10 THEN <<48 + n>>
    ELSE Decimal(n \div 10) \o <<48 + (n % 10)>>

(***************************************************************************)
(* url::Url as main.rs uses it: the deserialised value of an entry's url,  *)
(* its text (as_ref, Display, ToSql), host_str and origin.                 *)
(***************************************************************************)
\* the port the url crate knows for a scheme, None for the other schemes
DefaultPort(scheme) ==
    IF scheme \in {s_http, s_ws} THEN Some(80)
    ELSE IF scheme \in {s_https, s_wss} THEN Some(443)
    ELSE IF scheme = s_ftp THEN Some(21)
    ELSE None

\* deserialising the url field: a port equal to the scheme's default port
\* is dropped from the Url
ParseUrl(raw) ==
    [scheme |-> raw.scheme,
     host   |-> raw.host,
     port   |-> IF raw.port = DefaultPort(raw.scheme) THEN None ELSE raw.port,
     path   |-> raw.path]

\* url.as_ref(), and the text bound to a statement for &url
UrlText(url) ==
    url.scheme \o <<Colon>>
      \o (IF url.host = None THEN <<>>
          ELSE s_slashes \o url.host[1]
                 \o (IF url.port = None THEN <<>>
                     ELSE <<Colon>> \o Decimal(url.port[1])))
      \o url.path

\* url.host_str()
host_str(url) == url.host

\* url.origin(): None is Origin::Opaque, Some is Origin::Tuple
UrlOrigin(url) ==
    IF url.scheme \in {s_ftp, s_http, s_https, s_ws, s_wss} /\ url.host # None
    THEN Some([scheme |-> url.scheme,
               host   |-> url.host[1],
               port   |-> IF url.port = None
                          THEN DefaultPort(url.scheme)[1]
                          ELSE url.port[1]])
    ELSE None

RawUrl(scheme, host, port, path) ==
    [scheme |-> scheme, host |-> host, port |-> port, path |-> path]

\* the url texts of the source entries and what they deserialise to
Raw_a == RawUrl(s_https, Some(s_h), None, s_a)

Raw_a443 == RawUrl(s_https, Some(s_h), Some(443), s_a)

Raw_aslash == RawUrl(s_https, Some(s_h), None, s_a_slash)

Raw_a8443 == RawUrl(s_https, Some(s_h), Some(8443), s_a)

Raw_http80 == RawUrl(s_http, Some(s_h), Some(80), s_a)

Raw_chrome == RawUrl(s_chrome, Some(s_h), None, s_a)

Raw_about == RawUrl(s_about, None, None, s_blank)

RawUrls ==
    { Raw_a, Raw_a443, Raw_aslash, Raw_a8443, Raw_http80, Raw_chrome,
      Raw_about }

Urls == { ParseUrl(raw) : raw \in RawUrls }

\* ChromeTakeoutEntry
Entry(title, raw, time_usec) ==
    [title |-> title, url |-> ParseUrl(raw), time_usec |-> time_usec]

\* the entries a source file is made of: a url visited at two times, with
\* and without a title; a url that differs by a trailing slash; a url whose
\* origin is opaque; a url without a host
Entries ==
    { Entry(s_T, Raw_a, 1),
      Entry(<<>>, Raw_a, 2),
      Entry(s_T, Raw_aslash, 3),
      Entry(s_T, Raw_chrome, 1),
      Entry(s_T, Raw_about, 2) }

\* the entries of the sources whose urls differ in scheme and port: the
\* default port left out and written out, another port, http
OriginEntries ==
    { Entry(s_T, Raw_a, 1),
      Entry(s_T, Raw_a443, 2),
      Entry(s_T, Raw_a8443, 2),
      Entry(s_T, Raw_http80, 3) }

\* the entries of the sources that are imported more than once, into a
\* database that is empty before the first run
RerunEntries ==
    { Entry(s_T, Raw_a, 1),
      Entry(<<>>, Raw_a, 2),
      Entry(s_T, Raw_chrome, 1),
      Entry(s_T, Raw_about, 2) }

(***************************************************************************)
(* generate_guid                                                           *)
(***************************************************************************)
GUID_LENGTH == 12

REQUIRED_BYTES_LEN == (GUID_LENGTH \div 4) * 3

\* the byte of a base64 digit in the URL_SAFE alphabet
Base64Char(d) ==
    IF d < 26 THEN 65 + d
    ELSE IF d < 52 THEN 97 + (d - 26)
    ELSE IF d < 62 THEN 48 + (d - 52)
    ELSE IF d = 62 THEN 45
    ELSE 95

RECURSIVE Base64Encode(_)
\* URL_SAFE.encode of a buffer whose length is a multiple of three (no
\* padding is produced for such a buffer)
Base64Encode(buffer) ==
    IF Len(buffer) < 3 THEN <<>>
    ELSE LET a == buffer[1]
             b == buffer[2]
             c == buffer[3]
         IN  << Base64Char(a \div 4),
                Base64Char(((a % 4) * 16) + (b \div 16)),
                Base64Char(((b % 16) * 4) + (c \div 64)),
                Base64Char(c % 64) >>
             \o Base64Encode(SubSeq(buffer, 4, Len(buffer)))

\* what fill_bytes may leave in the buffer
\* the bytes the generator leaves in the buffer in the runs modelled
ZeroBuffer == <<0, 0, 0, 0, 0, 0, 0, 0, 0>>

RandomBuffers == { ZeroBuffer }

\* fn generate_guid() -> String, for the bytes the generator produced
generate_guid(buffer) == Base64Encode(buffer)

(***************************************************************************)
(* The places database: moz_origins, moz_places, moz_historyvisits.  A     *)
(* table is the set of its rows; a new row gets the next free id.          *)
(***************************************************************************)
EmptyStore == [origins |-> {}, places |-> {}, visits |-> {}]

\* the id of a row inserted without one
NextId(rows) ==
    IF rows = {} THEN 1
    ELSE (CHOOSE m \in { r.id : r \in rows } :
              \A r \in rows : r.id <= m) + 1

\* the id a single row query returns among the matching rows
FirstId(rows) ==
    CHOOSE m \in { r.id : r \in rows } : \A r \in rows : m <= r.id

\* the database calls of one insert_visit that can return an error
FaultPoints ==
    { "exists", "place_select", "origin_select", "origin_insert",
      "place_insert", "update", "visit_insert" }

NoFault == "none"

\* a key that always carries the port
OriginKey_NoFold(o) ==
    [prefix |-> o.scheme \o s_sep,
     host |-> o.host \o <<Colon>> \o Decimal(o.port)]

\* the (prefix, host) of find_or_insert_origin for Origin::Tuple
OriginKey(o) ==
    IF o.scheme = s_https /\ o.port = 443
    THEN [prefix |-> s_https \o s_sep, host |-> o.host]
    ELSE IF o.scheme = s_https
    THEN [prefix |-> s_https \o s_sep,
          host |-> o.host \o <<Colon>> \o Decimal(o.port)]
    ELSE IF o.scheme = s_http /\ o.port = 80
    THEN [prefix |-> s_http \o s_sep, host |-> o.host]
    ELSE IF o.scheme = s_http
    THEN [prefix |-> s_http \o s_sep,
          host |-> o.host \o <<Colon>> \o Decimal(o.port)]
    ELSE [prefix |-> o.scheme \o s_sep,
          host |-> o.host \o <<Colon>> \o Decimal(o.port)]

\* a lookup of the origin that finds no row
FindOrigin_Nothing(st, key) == {}

\* SELECT id FROM moz_origins WHERE host = (?1) AND prefix = (?2)
FindOrigin(st, key) ==
    { r \in st.origins : r.host = key.host /\ r.prefix = key.prefix }

\* the row of INSERT INTO moz_origins
OriginRow(id, key) ==
    [id |-> id, prefix |-> key.prefix, host |-> key.host, frecency |-> 0,
     recalc_frecency |-> 1, alt_frecency |-> None, recalc_alt_frecency |-> 1]

\* fn find_or_insert_origin(url, transaction) -> anyhow::Result<u32>
\* res is "Ok" or "Err"; hit tells that the call named by fault was made
find_or_insert_origin(url, st, fault) ==
    LET o == UrlOrigin(url)
    IN  IF o = None
        THEN [st |-> st, res |-> "Err", id |-> 0, hit |-> FALSE]
        ELSE
        LET key   == OriginKey(o[1])
            found == FindOrigin(st, key)
        IN  IF fault = "origin_select"
            THEN [st |-> st, res |-> "Err", id |-> 0, hit |-> TRUE]
            ELSE IF found # {}
            THEN [st |-> st, res |-> "Ok", id |-> FirstId(found),
                  hit |-> FALSE]
            ELSE IF fault = "origin_insert"
            THEN [st |-> st, res |-> "Err", id |-> 0, hit |-> TRUE]
            ELSE LET id == NextId(st.origins)
                 IN  [st  |-> [st EXCEPT !.origins =
                                   @ \cup {OriginRow(id, key)}],
                      res |-> "Ok", id |-> id, hit |-> FALSE]

\* hash::hash(url.as_ref()) of the urls of the source, computed once
UrlHash == [u \in Urls |-> hash(UrlText(u))]

\* a place row that is given the id of its own place as origin_id
PlaceRow_OwnId(id, url, title, rev_host, guid, url_hash, origin_id) ==
    [id |-> id, url |-> UrlText(url), title |-> title,
     rev_host |-> rev_host, visit_count |-> 0, last_visit_date |-> None,
     guid |-> guid, url_hash |-> url_hash, origin_id |-> id + 1,
     recalc_frecency |-> 1, alt_frecency |-> 0, recalc_alt_frecency |-> 1]

\* the row of INSERT INTO moz_places; visit_count is the column's default
PlaceRow(id, url, title, rev_host, guid, url_hash, origin_id) ==
    [id |-> id, url |-> UrlText(url), title |-> title,
     rev_host |-> rev_host, visit_count |-> 0, last_visit_date |-> None,
     guid |-> guid, url_hash |-> url_hash, origin_id |-> origin_id,
     recalc_frecency |-> 1, alt_frecency |-> 0, recalc_alt_frecency |-> 1]

\* a lookup of the place by its host instead of its url
FindPlace_ByHost(st, url) ==
    { r \in st.places :
        url.host # None /\ r.rev_host = Rev(url.host[1]) \o <<46>> }

\* SELECT id FROM moz_places WHERE url = (?1)
FindPlace(st, url) == { r \in st.places : r.url = UrlText(url) }

\* fn find_or_insert_place(url, title, transaction) -> anyhow::Result<u32>
\* res is "Ok", "Err" or "Panic"; drew tells that generate_guid was called
find_or_insert_place(url, title, st, fault, buffer) ==
    LET found == FindPlace(st, url)
    IN  IF fault = "place_select"
        THEN [st |-> st, res |-> "Err", id |-> 0, hit |-> TRUE,
              drew |-> FALSE]
        ELSE IF found # {}
        THEN [st |-> st, res |-> "Ok", id |-> FirstId(found), hit |-> FALSE,
              drew |-> FALSE]
        ELSE IF host_str(url) = None
        THEN [st |-> st, res |-> "Panic", id |-> 0, hit |-> FALSE,
              drew |-> FALSE]
        ELSE
        LET rev_host == Rev(host_str(url)[1]) \o <<46>>
            guid     == generate_guid(buffer)
            url_hash == UrlHash[url]
        IN  IF url_hash = None
            THEN [st |-> st, res |-> "Err", id |-> 0, hit |-> FALSE,
                  drew |-> TRUE]
            ELSE
            LET origin == find_or_insert_origin(url, st, fault)
            IN  IF origin.res = "Err"
                THEN [st |-> origin.st, res |-> "Err", id |-> 0,
                      hit |-> origin.hit, drew |-> TRUE]
                ELSE IF fault = "place_insert"
                THEN [st |-> origin.st, res |-> "Err", id |-> 0,
                      hit |-> TRUE, drew |-> TRUE]
                ELSE LET id == NextId(origin.st.places)
                     IN  [st  |-> [origin.st EXCEPT !.places = @ \cup
                                     {PlaceRow(id, url, title, rev_host, guid,
                                               url_hash[1], origin.id)}],
                          res |-> "Ok", id |-> id, hit |-> FALSE,
                          drew |-> TRUE]

\* the time of the entry, whatever the column holds
MaxIfNull_Overwrite(last_visit_date, time) == time

\* max(ifnull(last_visit_date, 0), ?1)
MaxIfNull(last_visit_date, time) ==
    LET old == IF last_visit_date = None THEN 0 ELSE last_visit_date[1]
    IN  IF old >= time THEN old ELSE time

\* an update that sets the aggregates to those of a first visit
UpdatePlace_Reset(st, time, place) ==
    [st EXCEPT !.places =
        { IF r.id = place
          THEN [r EXCEPT !.visit_count = 1,
                         !.last_visit_date = Some(time),
                         !.recalc_frecency = 1]
          ELSE r : r \in st.places }]

\* UPDATE moz_places SET visit_count = visit_count + 1, last_visit_date =
\* max(ifnull(last_visit_date, 0), ?1), recalc_frecency = 1 WHERE id = (?2)
UpdatePlace(st, time, place) ==
    [st EXCEPT !.places =
        { IF r.id = place
          THEN [r EXCEPT !.visit_count = @ + 1,
                         !.last_visit_date = Some(MaxIfNull(@, time)),
                         !.recalc_frecency = 1]
          ELSE r : r \in st.places }]

\* the row of INSERT INTO moz_historyvisits
VisitRow(id, place, time) ==
    [id |-> id, from_visit |-> 0, place_id |-> place, visit_date |-> time,
     visit_type |-> 1, session |-> 0, source |-> 0,
     triggeringPlaceId |-> None]

\* an insert that replaces the visit rows of the table
InsertVisitRow_Replace(st, place, time) ==
    [st EXCEPT !.visits = {VisitRow(NextId(st.visits), place, time)}]

\* INSERT INTO moz_historyvisits ... VALUES (0, ?1, ?2, 1, 0, 0, NULL)
InsertVisitRow(st, place, time) ==
    [st EXCEPT !.visits = @ \cup {VisitRow(NextId(st.visits), place, time)}]

\* the existence query on another column
VisitExists_WrongColumn(st, time) ==
    \E v \in st.visits : v.place_id = time

\* SELECT EXISTS(SELECT 1 FROM moz_historyvisits WHERE visit_date = ?1)
VisitExists(st, time) == \E v \in st.visits : v.visit_date = time

\* an insert_visit that resolves the place before it looks for the visit
insert_visit_PlaceFirst(st, url, title, time, fault, buffer) ==
    LET place == find_or_insert_place(url, title, st, fault, buffer)
    IN  IF fault = "exists"
        THEN [st |-> st, out |-> "Err", hit |-> TRUE, drew |-> FALSE]
        ELSE IF place.res # "Ok"
        THEN [st |-> place.st, out |-> place.res, hit |-> place.hit,
              drew |-> place.drew]
        ELSE IF VisitExists(st, time)
        THEN [st |-> place.st, out |-> "Skipped", hit |-> FALSE,
              drew |-> place.drew]
        ELSE IF fault = "update"
        THEN [st |-> place.st, out |-> "Err", hit |-> TRUE,
              drew |-> place.drew]
        ELSE
        LET updated == UpdatePlace(place.st, time, place.id)
        IN  IF fault = "visit_insert"
            THEN [st |-> updated, out |-> "Err", hit |-> TRUE,
                  drew |-> place.drew]
            ELSE [st   |-> InsertVisitRow(updated, place.id, time),
                  out  |-> "Recorded", hit |-> FALSE,
                  drew |-> place.drew]

\* FirefoxHistoryBatch::insert_visit(&mut self, url, title, time)
\* out is "Recorded" (Ok after the writes), "Skipped" (Ok of the early
\* return), "Err" or "Panic"
insert_visit(st, url, title, time, fault, buffer) ==
    LET exists == VisitExists(st, time)
    IN  IF fault = "exists"
        THEN [st |-> st, out |-> "Err", hit |-> TRUE, drew |-> FALSE]
        ELSE IF exists
        THEN [st |-> st, out |-> "Skipped", hit |-> FALSE, drew |-> FALSE]
        ELSE
        LET place == find_or_insert_place(url, title, st, fault, buffer)
        IN  IF place.res # "Ok"
            THEN [st |-> place.st, out |-> place.res, hit |-> place.hit,
                  drew |-> place.drew]
            ELSE IF fault = "update"
            THEN [st |-> place.st, out |-> "Err", hit |-> TRUE,
                  drew |-> place.drew]
            ELSE
            LET updated == UpdatePlace(place.st, time, place.id)
            IN  IF fault = "visit_insert"
                THEN [st |-> updated, out |-> "Err", hit |-> TRUE,
                      drew |-> place.drew]
                ELSE [st   |-> InsertVisitRow(updated, place.id, time),
                      out  |-> "Recorded", hit |-> FALSE,
                      drew |-> place.drew]

(***************************************************************************)
(* main: one transaction per chunk of the source, one insert_visit per     *)
(* entry, an Err of insert_visit is printed and the loop goes on.          *)
(***************************************************************************)
RECURSIVE SeqsUpTo(_, _)
\* the sequences over S of length n at most
SeqsUpTo(S, n) ==
    IF n = 0 THEN { <<>> }
    ELSE LET shorter == SeqsUpTo(S, n - 1)
         IN  shorter \cup { Append(q, e) : q \in shorter, e \in S }

\* a database Firefox has filled before the import: one origin, a visited
\* place and a place that was never visited
SeededStore ==
    LET visited == ParseUrl(Raw_aslash)
        unseen  == ParseUrl(Raw_about)
    IN  [origins |-> { OriginRow(1, OriginKey(UrlOrigin(visited)[1])) },
         places  |->
           { [PlaceRow(1, visited, Some(s_T), Rev(s_h) \o <<46>>,
                       generate_guid(ZeroBuffer), hash(UrlText(visited))[1],
                       1)
                EXCEPT !.visit_count = 1, !.last_visit_date = Some(3)],
             PlaceRow(2, unseen, None, <<46>>,
                      generate_guid(ZeroBuffer), hash(UrlText(unseen))[1],
                      0) },
         visits  |-> { VisitRow(1, 1, 3) }]

InitStores == { EmptyStore, SeededStore }

\* a title that is passed as it is, the empty one too
TitleOf_AsIs(entry) == Some(entry.title)

\* the title main passes: None for an empty title
TitleOf(entry) ==
    IF entry.title = <<>> THEN None ELSE Some(entry.title)

\* no call of insert_visit returned a database error in the trace
NoFaultIn(tr) == \A j \in 1..Len(tr) : tr[j].fault = NoFault

\* what is compared of two databases: the visits by url and timestamp, the
\* places by url with their aggregates, the origins by key
View(st) ==
    [visits  |-> UNION { { <<p.url, v.visit_date>> :
                             p \in { q \in st.places : q.id = v.place_id } } :
                         v \in st.visits },
     places  |-> { <<p.url, p.visit_count, p.last_visit_date>> :
                     p \in st.places },
     origins |-> { <<o.prefix, o.host>> : o \in st.origins }]

RECURSIVE SameFaultsRun(_, _, _)
\* the store after the first n entries of the source are applied to st in
\* one run that nothing interrupts, in which the statements fail that
\* failed in the run with the trace tr
SameFaultsRun(st, n, tr) ==
    IF n = 0 THEN st
    ELSE insert_visit(SameFaultsRun(st, n - 1, tr), src[n].url,
                      TitleOf(src[n]), src[n].time_usec,
                      IF n <= Len(tr) THEN tr[n].fault ELSE NoFault,
                      ZeroBuffer).st

\* no run before this one
NoPrev ==
    [pc |-> "none", committed |-> 0, recorded |-> {}, nofault |-> TRUE,
     clean |-> TRUE, same |-> View(EmptyStore)]

InitOver(E, S) ==
    /\ db0 \in S
    /\ db = db0
    /\ tx = db0
    /\ snap = db0
    /\ src \in SeqsUpTo(E, MaxLen)
    /\ i = 0
    /\ pc = "loop"
    /\ run = 1
    /\ committed = 0
    /\ faults = 0
    /\ trace = <<>>
    /\ prev = NoPrev
    /\ hin = <<>>
    /\ hout = None

Init == InitOver(Entries, InitStores)

\* history.begin()? at the head of a chunk
Begin ==
    /\ pc = "loop"
    /\ i < Len(src)
    /\ pc' = "entry"
    /\ tx' = db
    /\ UNCHANGED <<db, src, i, run, committed, faults, trace, prev, db0,
                   snap, hin, hout>>

\* history.begin()? returns the error of connection.transaction()
BeginFail ==
    /\ pc = "loop"
    /\ i < Len(src)
    /\ pc' = "failed"
    /\ UNCHANGED <<db, tx, src, i, run, committed, faults, trace, prev, db0,
                   snap, hin, hout>>

\* the loop over the chunks is over: Ok(())
Finish ==
    /\ pc = "loop"
    /\ i = Len(src)
    /\ pc' = "done"
    /\ UNCHANGED <<db, tx, src, i, run, committed, faults, trace, prev, db0,
                   snap, hin, hout>>

\* the body of the inner loop for entry i + 1: insert_visit and the
\* eprintln of its Err; a panic unwinds main and drops the transaction
ProcessEntry(fault, buffer) ==
    /\ pc = "entry"
    /\ LET entry == src[i + 1]
           r     == insert_visit(tx, entry.url, TitleOf(entry),
                                 entry.time_usec, fault, buffer)
       IN  /\ fault # NoFault => (r.hit /\ faults < MaxFaults)
           /\ ~r.drew => buffer = ZeroBuffer
           /\ tx' = IF r.out = "Panic" THEN db ELSE r.st
           /\ pc' = IF r.out = "Panic" THEN "panicked"
                    ELSE IF i + 1 = Len(src) \/ (i + 1) % ChunkSize = 0
                    THEN "commit"
                    ELSE "entry"
           /\ trace' = Append(trace, [fault |-> fault, buffer |-> buffer,
                                       out |-> r.out, wrote |-> r.st # tx])
           /\ faults' = IF fault = NoFault THEN faults ELSE faults + 1
    /\ i' = i + 1
    /\ UNCHANGED <<db, src, run, committed, prev, db0, snap, hin, hout>>

\* a commit that reports success and persists nothing
Commit_Lost ==
    /\ pc = "commit"
    /\ db' = db
    /\ committed' = i
    /\ pc' = "loop"
    /\ UNCHANGED <<tx, src, i, run, faults, trace, prev, db0, snap, hin,
                   hout>>

\* batch.commit()? at the end of a chunk
Commit ==
    /\ pc = "commit"
    /\ db' = tx
    /\ committed' = i
    /\ pc' = "loop"
    /\ UNCHANGED <<tx, src, i, run, faults, trace, prev, db0, snap, hin,
                   hout>>

\* a failed commit that leaves the writes of the batch in the file
CommitFail_Persists ==
    /\ pc = "commit"
    /\ pc' = "failed"
    /\ db' = tx
    /\ UNCHANGED <<tx, src, i, run, committed, faults, trace, prev, db0, snap,
                   hin, hout>>

\* batch.commit()? returns an error: the transaction is rolled back
CommitFail ==
    /\ pc = "commit"
    /\ pc' = "failed"
    /\ tx' = db
    /\ UNCHANGED <<db, src, i, run, committed, faults, trace, prev, db0, snap,
                   hin, hout>>

Stopped == pc \in {"done", "failed", "panicked"}

\* the program is started again on the same source file and database
Rerun ==
    /\ Stopped
    /\ run < MaxRuns
    /\ run' = run + 1
    /\ prev' = [pc        |-> pc,
                committed |-> committed,
                recorded  |-> { j \in 1..Len(trace) :
                                  trace[j].out = "Recorded" },
                nofault   |-> NoFaultIn(trace),
                clean     |-> prev.clean /\ NoFaultIn(trace),
                same      |-> View(SameFaultsRun(db0, Len(src), trace))]
    /\ snap' = db
    /\ tx' = db
    /\ i' = 0
    /\ committed' = 0
    /\ trace' = <<>>
    /\ pc' = "loop"
    /\ UNCHANGED <<db, src, faults, db0, hin, hout>>

\* one run of main
Next ==
    \/ Begin
    \/ BeginFail
    \/ Finish
    \/ \E fault \in FaultPoints \cup {NoFault}, buffer \in RandomBuffers :
          ProcessEntry(fault, buffer)
    \/ Commit
    \/ CommitFail

Spec == Init /\ [][Next]_vars

\* the runs of main over the sources made of OriginEntries
OriginInit == InitOver(OriginEntries, InitStores)

OriginSpec == OriginInit /\ [][Next]_vars

\* runs of main, one after the other, over the same source and database
RerunInit == InitOver(RerunEntries, {EmptyStore})

RerunNext == Next \/ Rerun

RerunSpec == RerunInit /\ [][RerunNext]_vars

(***************************************************************************)
(* The hasher on its own: hash is applied to a text.                       *)
(***************************************************************************)
\* the urls of tests::test_hash
Vector1 ==
    <<104,116,116,112,115,58,47,47,118,97,117,108,116,46,98,105,116,119,97,
      114,100,101,110,46,99,111,109,47>>

Vector2 ==
    <<104,116,116,112,115,58,47,47,115,101,97,114,99,104,46,110,105,120,111,
      115,46,111,114,103,47>>

Vector3 ==
    <<104,116,116,112,115,58,47,47,119,105,107,105,46,97,114,99,104,108,105,
      110,117,120,46,111,114,103,47>>

Vector4 ==
    <<106,97,118,97,115,99,114,105,112,116,58,40,102,117,110,99,116,105,111,
      110,40,41,37,55,66,119,105,110,100,111,119,46,108,111,99,97,116,105,
      111,110,37,50,48,37,51,68,37,50,48,37,54,48,104,116,116,112,115,37,51,
      65,37,50,70,37,50,70,101,108,107,46,122,111,110,101,37,50,70,37,50,52,
      37,55,66,119,105,110,100,111,119,46,108,111,99,97,116,105,111,110,46,
      116,111,83,116,114,105,110,103,40,41,37,55,68,37,54,48,37,51,66,37,55,
      68,41,40,41,37,51,66>>

Vector5 ==
    <<104,116,116,112,115,58,47,47,119,119,119,46,109,111,122,105,108,108,97,
      46,111,114,103,47,97,98,111,117,116,47>>

\* the texts hash is applied to: the test urls and every short text over
\* ':', '/' and 'a'
HashTexts ==
    {Vector1, Vector2, Vector3, Vector4, Vector5}
        \cup SeqsUpTo({Colon, 47, 97}, MaxText)

HashInit ==
    /\ db0 = EmptyStore
    /\ db = EmptyStore
    /\ tx = EmptyStore
    /\ snap = EmptyStore
    /\ src = <<>>
    /\ i = 0
    /\ pc = "hash"
    /\ run = 1
    /\ committed = 0
    /\ faults = 0
    /\ trace = <<>>
    /\ prev = NoPrev
    /\ hin \in HashTexts
    /\ hout = None

\* a call of hash::hash(hin)
HashApply ==
    /\ pc = "hash"
    /\ hout' = hash(hin)
    /\ pc' = "hashed"
    /\ UNCHANGED <<db, tx, src, i, run, committed, faults, trace, prev, db0,
                   snap, hin>>

HashNext == HashApply

HashSpec == HashInit /\ [][HashNext]_vars

(***************************************************************************)
(* Properties.                                                             *)
(***************************************************************************)
\* the transaction holds every write of the entries taken in this run
Live == pc \in {"loop", "entry", "commit", "done"}

\* the visit timestamps of a store are pairwise distinct
DistinctTimestamps(st) ==
    \A v, w \in st.visits : v.visit_date = w.visit_date => v = w

\* entry j of this run met a visit row with its timestamp: one of the store
\* the run started from, or one an earlier entry of the run recorded
HadVisit(j) ==
    \/ \E v \in snap.visits : v.visit_date = src[j].time_usec
    \/ \E k \in 1..(j - 1) :
          /\ src[k].time_usec = src[j].time_usec
          /\ trace[k].out = "Recorded"

\* C1 as stated: of two entries with the same timestamp only the first in
\* source order produces a visit row, and the later one is skipped and
\* returns success.  No database call fails in the runs considered.
C1_FirstInSourceOrderWins ==
    faults = 0 =>
        \A j, k \in 1..Len(trace) :
            (j < k /\ src[j].time_usec = src[k].time_usec)
                => trace[k].out = "Skipped"

\* C1 as amended: the store never holds two visit rows with the same
\* timestamp; an entry whose timestamp already has a visit row (in the
\* store, or recorded by an earlier entry) writes nothing and is skipped
\* with success, unless its existence query itself fails; an entry is
\* skipped only in that case, so the first entry with a timestamp that is
\* processed without error is the one that produces the visit row.
C1_TimestampDedup ==
    /\ DistinctTimestamps(tx)
    /\ DistinctTimestamps(db)
    /\ \A j \in 1..Len(trace) :
          /\ HadVisit(j) =>
                /\ ~trace[j].wrote
                /\ trace[j].out =
                      IF trace[j].fault = "exists" THEN "Err" ELSE "Skipped"
          /\ trace[j].out = "Skipped" => HadVisit(j)

\* an entry was recorded and a later entry with the same timestamp and
\* another url was skipped
C1_Witness ==
    \E j, k \in 1..Len(trace) :
        /\ j < k
        /\ src[j].time_usec = src[k].time_usec
        /\ src[j].url # src[k].url
        /\ trace[j].out = "Recorded"
        /\ trace[k].out = "Skipped"
        /\ Cardinality(tx.visits) = Cardinality(snap.visits) + 1

C3_EntryFailureContained ==
    /\ pc # "panicked"
    /\ \A j \in 1..Len(trace) : trace[j].out \in {"Recorded", "Skipped", "Err"}

RECURSIVE ReplayTo(_, _)
\* the store after the first n entries of this run, each with the failing
\* call and the random bytes it had, applied to st with no rollback
ReplayTo(st, n) ==
    IF n = 0 THEN st
    ELSE insert_visit(ReplayTo(st, n - 1), src[n].url, TitleOf(src[n]),
                      src[n].time_usec, trace[n].fault, trace[n].buffer).st

\* C4: the database file holds exactly the effects of the entries of the
\* batches that committed, which are whole batches; when the run has
\* stopped inside a batch (begin failed, an entry panicked, commit failed)
\* nothing of that batch is in the file and no entry of a later batch was
\* taken.
C4_BatchAtomic ==
    /\ committed <= i
    /\ committed % ChunkSize = 0 \/ committed = Len(src)
    /\ db = ReplayTo(snap, committed)
    /\ Len(trace) = i
    /\ i <= committed + ChunkSize
    /\ pc \in {"failed", "panicked"} => tx = db

\* the commit of the second batch failed after an entry of it was recorded,
\* and the first batch had recorded an entry
C4_Witness ==
    /\ pc = "failed"
    /\ committed = ChunkSize
    /\ i > committed
    /\ trace[i].out = "Recorded"
    /\ \E j \in 1..committed : trace[j].out = "Recorded"
    /\ db # snap

RECURSIVE CleanRun(_, _)
\* the store after the first n entries of the source are applied to st in
\* one run in which no database call fails
CleanRun(st, n) ==
    IF n = 0 THEN st
    ELSE insert_visit(CleanRun(st, n - 1), src[n].url, TitleOf(src[n]),
                      src[n].time_usec, NoFault, ZeroBuffer).st

\* C5 as stated, for the run that follows an interrupted first run: when it
\* completes and no statement of its entries fails, the database has the
\* visits by place url and timestamp, the place urls with their visit_count
\* and last_visit_date, and the origins of one uninterrupted run over the
\* source from the first database, be it the run in which no statement
\* fails or the run in which the statements fail that failed in the
\* interrupted run.
C5_RestartConverges ==
    (run = 2 /\ prev.pc \in {"failed", "panicked"}
       /\ pc = "done" /\ NoFaultIn(trace))
      => View(db) \in { View(CleanRun(db0, Len(src))), prev.same }

\* the same when no statement of an entry failed in an earlier run either
C5_CleanRestartConverges ==
    (run >= 2 /\ prev.pc \in {"failed", "panicked"}
       /\ pc = "done" /\ prev.clean /\ NoFaultIn(trace))
      => View(db) = View(CleanRun(db0, Len(src)))

\* "https://h/a"
t_a == <<104, 116, 116, 112, 115, 58, 47, 47, 104, 47, 97>>

\* "https://h/a/"
t_aslash == <<104, 116, 116, 112, 115, 58, 47, 47, 104, 47, 97, 47>>

\* "https://h:8443/a"
t_a8443 ==
    <<104, 116, 116, 112, 115, 58, 47, 47, 104, 58, 56, 52, 52, 51, 47, 97>>

\* "http://h/a"
t_http == <<104, 116, 116, 112, 58, 47, 47, 104, 47, 97>>

\* "https://"
p_https == <<104, 116, 116, 112, 115, 58, 47, 47>>

\* "http://"
p_http == <<104, 116, 116, 112, 58, 47, 47>>

\* "h:8443"
h_8443 == <<104, 58, 56, 52, 52, 51>>

\* C6: the store holds one place per url text at most; find_or_insert_place
\* for a url that has a place returns its id and writes nothing; a recorded
\* visit references the place whose url is the exact text of the entry's
\* url; the step of an entry whose url has a place creates no place.
C6_PlaceUnique ==
    /\ [](/\ \A p, q \in tx.places :
               (p.url = q.url \/ p.id = q.id) => p = q
          /\ \A u \in Urls, title \in {None, Some(s_T)} :
               LET found == { p \in tx.places : p.url = UrlText(u) }
                   r     == find_or_insert_place(u, title, tx, NoFault,
                                                 ZeroBuffer)
               IN  found # {} =>
                     /\ r.res = "Ok"
                     /\ r.st = tx
                     /\ \E p \in found : p.id = r.id
          /\ Live =>
               \A j \in 1..Len(trace) :
                   trace[j].out = "Recorded" =>
                       \E v \in tx.visits, p \in tx.places :
                           /\ v.visit_date = src[j].time_usec
                           /\ v.place_id = p.id
                           /\ p.url = UrlText(src[j].url))
    /\ [][(i' = i + 1
            /\ \E p \in tx.places : p.url = UrlText(src[i'].url))
           => { <<p.id, p.url>> : p \in tx'.places }
                = { <<p.id, p.url>> : p \in tx.places }]_vars

\* a url was recorded twice into one place and the url with a trailing
\* slash into another place
C6_Witness ==
    /\ Live
    /\ \E p, q \in tx.places :
          /\ p.url = t_a
          /\ q.url = t_aslash
          /\ p.id # q.id
          /\ p.visit_count = 2
          /\ q.visit_count = 1

\* the (prefix, host) C7 states for the url texts of the source
ExpectedOrigin(text) ==
    CASE text = t_a -> <<p_https, s_h>>
      [] text = t_aslash -> <<p_https, s_h>>
      [] text = t_a8443 -> <<p_https, h_8443>>
      [] text = t_http -> <<p_http, s_h>>
      [] OTHER -> <<None, None>>

\* C7: the store holds one origin per (prefix, host) at most; the origin
\* of a place is the one of its url, without the port for https on 443 and
\* http on 80 and with it for https on 8443; find_or_insert_origin called
\* twice for a url returns one id and inserts one row at most.
C7_OriginUnique ==
    /\ \A o, q \in tx.origins :
          ((o.prefix = q.prefix /\ o.host = q.host) \/ o.id = q.id) => o = q
    /\ \A p \in tx.places :
          p.url \in {t_a, t_aslash, t_a8443, t_http} =>
              \E o \in tx.origins :
                  /\ o.id = p.origin_id
                  /\ <<o.prefix, o.host>> = ExpectedOrigin(p.url)
    /\ \A raw \in RawUrls :
          LET u     == ParseUrl(raw)
              once  == find_or_insert_origin(u, tx, NoFault)
              twice == find_or_insert_origin(u, once.st, NoFault)
          IN  UrlOrigin(u) # None =>
                /\ once.res = "Ok"
                /\ twice.res = "Ok"
                /\ twice.id = once.id
                /\ twice.st = once.st
                /\ Cardinality(once.st.origins)
                      <= Cardinality(tx.origins) + 1
                /\ \E o \in once.st.origins :
                      /\ o.id = once.id
                      /\ <<o.prefix, o.host>> = ExpectedOrigin(UrlText(u))
    /\ UrlText(ParseUrl(Raw_a443)) = t_a
    /\ UrlText(ParseUrl(Raw_http80)) = t_http

\* two urls of one host on the default port share an origin and the url on
\* port 8443 has another one
C7_Witness ==
    /\ Live
    /\ Cardinality(tx.origins) = 2
    /\ \E p, q, r \in tx.places :
          /\ p.url = t_a
          /\ q.url = t_aslash
          /\ r.url = t_a8443
          /\ p.origin_id = q.origin_id
          /\ r.origin_id # p.origin_id

\* the larger of two numbers
Larger(a, b) == IF a >= b THEN a ELSE b

\* the entries of this run recorded for the url text
RecordedFor(text) ==
    { j \in 1..Len(trace) :
        trace[j].out = "Recorded" /\ UrlText(src[j].url) = text }

\* the largest timestamp of the entries J, 0 for none
RECURSIVE LargestTime(_)
LargestTime(J) ==
    IF J = {} THEN 0
    ELSE LET j == CHOOSE k \in J : TRUE
         IN  Larger(src[j].time_usec, LargestTime(J \ {j}))

\* C8: the step of an entry that is recorded leaves one place with the
\* url of the entry, its visit_count one more than before (0 for a new
\* place), its last_visit_date the larger of the timestamp and the value
\* before (0 for null), its recalc_frecency set; it adds one visit row, for
\* that place and timestamp, and leaves the other places as they were.  So
\* in a run whose visit inserts all succeed a place's visit_count is what it
\* was before the run plus the number of entries recorded for its url, and
\* its last_visit_date the largest of the value before and their timestamps.
C8_AggregateUpdate ==
    /\ [][(i' = i + 1 /\ trace'[i'].out = "Recorded") =>
            LET text == UrlText(src[i'].url)
                time == src[i'].time_usec
                old  == { p \in tx.places : p.url = text }
                new  == { p \in tx'.places : p.url = text }
            IN  /\ Cardinality(new) = 1
                /\ Cardinality(old) <= 1
                /\ \A q \in new :
                      /\ old = {} => /\ q.visit_count = 1
                                      /\ q.last_visit_date = Some(time)
                      /\ \A p \in old :
                            /\ q.visit_count = p.visit_count + 1
                            /\ q.last_visit_date =
                                  Some(Larger(time,
                                       IF p.last_visit_date = None THEN 0
                                       ELSE p.last_visit_date[1]))
                      /\ q.recalc_frecency = 1
                      /\ \E v \in tx'.visits :
                            /\ v.place_id = q.id
                            /\ v.visit_date = time
                            /\ tx'.visits = tx.visits \cup {v}
                            /\ v \notin tx.visits
                /\ \A p \in tx.places : p.url # text => p \in tx'.places
                /\ Cardinality(tx'.places) = Cardinality(tx.places)
                      + (IF old = {} THEN 1 ELSE 0)]_vars
    /\ []((Live /\ \A j \in 1..Len(trace) : trace[j].fault # "visit_insert")
            => \A p \in tx.places :
                 LET before == { q \in snap.places : q.url = p.url }
                     J      == RecordedFor(p.url)
                 IN  /\ before = {} =>
                           /\ p.visit_count = Cardinality(J)
                           /\ J # {} =>
                                 p.last_visit_date = Some(LargestTime(J))
                     /\ \A q \in before :
                           /\ p.visit_count = q.visit_count + Cardinality(J)
                           /\ J # {} =>
                                 p.last_visit_date =
                                   Some(Larger(LargestTime(J),
                                        IF q.last_visit_date = None THEN 0
                                        ELSE q.last_visit_date[1])))

\* two entries for one url were recorded, the later one with the older
\* timestamp, and the place counts two visits and keeps the newer time
C8_Witness ==
    /\ Live
    /\ Len(trace) >= 2
    /\ trace[1].out = "Recorded"
    /\ trace[2].out = "Recorded"
    /\ src[1].url = src[2].url
    /\ src[1].time_usec > src[2].time_usec
    /\ \E p \in tx.places :
          /\ p.url = UrlText(src[1].url)
          /\ p.visit_count = 2
          /\ p.last_visit_date = Some(src[1].time_usec)

\* C9 as stated: the step of an entry that ends in an error leaves the
\* transaction as it was before the entry.
C9_FailedEntryWritesNothing ==
    [][(i' = i + 1 /\ trace'[i'].out = "Err") => tx' = tx]_vars

\* 0x9E3779B9 as two halves of 16 bits
G_HI == 40503

G_LO == 31161

\* one round of the simple hash of C10 on a number held as <<high, low>>
\* halves of 16 bits: rotate left by 5, xor the byte, multiply modulo 2^32
RefRound(h, b) ==
    LET rhi == ((h[1] % 2048) * 32) + (h[2] \div 2048)
        rlo == ((h[2] % 2048) * 32) + (h[1] \div 2048)
        xlo == (rlo - (rlo % 256)) + BitXor(rlo % 256, b, 8)
        plo == xlo * G_LO
        mid == (xlo * (G_HI % 256))
                 + (((xlo * (G_HI \div 256)) % 256) * 256)
                 + (rhi * (G_LO % 256))
                 + (((rhi * (G_LO \div 256)) % 256) * 256)
                 + (plo \div 65536)
    IN  <<mid % 65536, plo % 65536>>

RECURSIVE RefLoop(_, _, _, _)
\* the rounds for the bytes lo..hi of text, from h
RefLoop(text, lo, hi, h) ==
    IF lo > hi THEN h
    ELSE IF lo = hi THEN RefRound(h, text[lo])
    ELSE LET mid  == (lo + hi) \div 2
             half == RefLoop(text, lo, mid, h)
         IN  IF half[1] + half[2] >= 0
             THEN RefLoop(text, mid + 1, hi, half)
             ELSE h

\* simple_hash of C10, from h = 0
RefSimpleHash(text) == RefLoop(text, 1, Len(text), <<0, 0>>)

\* C10: for a text with a ':' hash returns a value; it is below 2^48, its
\* low 32 bits are simple_hash(url), its bits 32..47 are the low 16 bits of
\* simple_hash(prefix) for the prefix before the first ':', and the five
\* urls of test_hash have the values of test_hash.
C10_HashValue ==
    pc = "hashed" =>
        /\ (\E k \in 1..Len(hin) : hin[k] = Colon) =>
              /\ hout # None
              /\ LET r      == hout[1]
                     first  == CHOOSE k \in 1..Len(hin) :
                                 /\ hin[k] = Colon
                                 /\ \A m \in 1..(k - 1) : hin[m] # Colon
                     prefix == SubSeq(hin, 1, first - 1)
                     hp     == RefSimpleHash(prefix)
                     hu     == RefSimpleHash(hin)
                 IN  /\ Len(r) = 8
                     /\ \A k \in 1..8 : r[k] \in 0..255
                     /\ r[7] = 0
                     /\ r[8] = 0
                     /\ r[1] + (256 * r[2]) = hu[2]
                     /\ r[3] + (256 * r[4]) = hu[1]
                     /\ r[5] + (256 * r[6]) = hp[2]
        /\ hin = Vector1 => hout = Some(<<6, 116, 20, 137, 18, 43, 0, 0>>)
        /\ hin = Vector2 => hout = Some(<<104, 44, 147, 253, 18, 43, 0, 0>>)
        /\ hin = Vector3 => hout = Some(<<1, 82, 110, 7, 18, 43, 0, 0>>)
        /\ hin = Vector4 => hout = Some(<<220, 105, 250, 202, 168, 55, 0, 0>>)
        /\ hin = Vector5 => hout = Some(<<61, 124, 109, 77, 18, 43, 0, 0>>)

\* the longest url of test_hash was hashed
C10_Witness ==
    /\ pc = "hashed"
    /\ hin = Vector3
    /\ hout = Some(<<1, 82, 110, 7, 18, 43, 0, 0>>)

\* C11: hash returns the error, and no value, exactly for the texts that
\* hold no ':'; for a text with a ':' it returns one value of 64 bits.
C11_HashError ==
    pc = "hashed" =>
        /\ (\A k \in 1..Len(hin) : hin[k] # Colon) => hout = None
        /\ (\E k \in 1..Len(hin) : hin[k] = Colon) =>
              /\ hout # None
              /\ Len(hout) = 1
              /\ Len(hout[1]) = 8

\* a text of several bytes without a ':' was hashed with the error
C11_Witness ==
    /\ pc = "hashed"
    /\ Len(hin) >= 2
    /\ \A k \in 1..Len(hin) : hin[k] # Colon
    /\ hout = None

\* the entries of this run that ended without an error
NoErrorIn(tr) ==
    \A j \in 1..Len(tr) : tr[j].out \in {"Recorded", "Skipped"}

\* C12: after entries that all ended without an error, taken into an empty
\* database, there is one visit row per timestamp of these entries, one
\* place per url of the entries that were recorded, and one origin per
\* (prefix, host) of these urls; when the run is over the file holds them.
\* Two entries of one url at two times and an entry of another url at a
\* third time leave two places and three visits.
C12_FinalCounts ==
    (db0 = EmptyStore /\ run = 1 /\ Live /\ NoErrorIn(trace)) =>
        LET taken == 1..Len(trace)
            times == { src[j].time_usec : j \in taken }
            urls  == { UrlText(src[j].url) :
                         j \in { k \in taken : trace[k].out = "Recorded" } }
            keys  == { ExpectedOrigin(u) : u \in urls }
        IN  /\ Cardinality(tx.visits) = Cardinality(times)
            /\ { v.visit_date : v \in tx.visits } = times
            /\ Cardinality(tx.places) = Cardinality(urls)
            /\ { p.url : p \in tx.places } = urls
            /\ Cardinality(tx.origins) = Cardinality(keys)
            /\ { <<o.prefix, o.host>> : o \in tx.origins } = keys
            /\ pc = "done" => db = tx
            /\ (/\ Len(trace) = 3
                /\ src[1].url = src[2].url
                /\ src[3].url # src[1].url
                /\ Cardinality(times) = 3)
                 => /\ Cardinality(tx.places) = 2
                    /\ Cardinality(tx.visits) = 3

\* the run over two entries of one url and one entry of another url, at
\* three times, is over: two places and three visits are in the file
C12_Witness ==
    /\ pc = "done"
    /\ db0 = EmptyStore
    /\ NoErrorIn(trace)
    /\ Len(trace) = 3
    /\ src[1].url = src[2].url
    /\ src[3].url # src[1].url
    /\ Cardinality({ src[j].time_usec : j \in 1..3 }) = 3
    /\ Cardinality(db.places) = 2
    /\ Cardinality(db.visits) = 3
    /\ Cardinality(db.origins) = 1

\* a last_visit_date as a number, 0 for null
DateOf(last_visit_date) ==
    IF last_visit_date = None THEN 0 ELSE last_visit_date[1]

\* every place of old is in new with aggregates that are not smaller
NotDecreased(old, new) ==
    \A p \in old.places :
        \E q \in new.places :
            /\ q.id = p.id
            /\ q.url = p.url
            /\ q.visit_count >= p.visit_count
            /\ DateOf(q.last_visit_date) >= DateOf(p.last_visit_date)
            /\ p.last_visit_date # None => q.last_visit_date # None

\* C13: no step lowers the visit_count or the last_visit_date of a place
\* in the database file, and the step of an entry, be it recorded, skipped
\* or failed, lowers none in the transaction, also when the timestamp of
\* the entry is older than the last_visit_date of the place.
C13_MonotonicAggregates ==
    [][/\ NotDecreased(db, db')
       /\ (i' = i + 1 /\ pc' # "panicked") => NotDecreased(tx, tx')]_vars

\* the entry taken last was recorded for a place whose last_visit_date is
\* newer than the timestamp of the entry
C13_Witness ==
    /\ Live
    /\ Len(trace) >= 1
    /\ trace[Len(trace)].out = "Recorded"
    /\ \E p \in tx.places :
          /\ p.url = UrlText(src[Len(trace)].url)
          /\ p.visit_count >= 2
          /\ DateOf(p.last_visit_date) > src[Len(trace)].time_usec

\* the rows of old are in new: the origin and visit rows as they were, each
\* place as one row that differs in visit_count, last_visit_date and
\* recalc_frecency at most
RowsKept(old, new) ==
    /\ old.origins \subseteq new.origins
    /\ old.visits \subseteq new.visits
    /\ \A p \in old.places :
          /\ Cardinality({ q \in new.places : q.id = p.id }) = 1
          /\ \E q \in new.places :
                q = [p EXCEPT !.visit_count = q.visit_count,
                              !.last_visit_date = q.last_visit_date,
                              !.recalc_frecency = q.recalc_frecency]

\* C14: no step removes or changes an origin row or a visit row of the
\* database file, and of a place it changes visit_count, last_visit_date
\* and recalc_frecency at most (url, title, rev_host, guid, url_hash and
\* origin_id stay); the same holds in the transaction for the step of an
\* entry, which leaves every place of another url than the entry's as it
\* was.
C14_Frame ==
    [][/\ RowsKept(db, db')
       /\ (i' = i + 1 /\ pc' # "panicked") =>
             /\ RowsKept(tx, tx')
             /\ \A p \in tx.places :
                   p.url # UrlText(src[i'].url) => p \in tx'.places]_vars

\* an entry was recorded for a place the database held before the run: the
\* place has one more visit and the columns it had, the other place, the
\* origin and the visit of the database are as they were
C14_Witness ==
    /\ Live
    /\ db0 = SeededStore
    /\ Len(trace) >= 1
    /\ trace[Len(trace)].out = "Recorded"
    /\ db0.origins \subseteq tx.origins
    /\ db0.visits \subseteq tx.visits
    /\ db0.visits # tx.visits
    /\ \E p, other \in db0.places, q \in tx.places :
          /\ p.url = UrlText(src[Len(trace)].url)
          /\ q.id = p.id
          /\ q.visit_count = p.visit_count + 1
          /\ q.title = p.title
          /\ q.guid = p.guid
          /\ q.origin_id = p.origin_id
          /\ other # p
          /\ other \in tx.places

\* the title C15 states for an entry: null for the empty text
ExpectedTitle(entry) ==
    IF Len(entry.title) = 0 THEN <<>> ELSE <<entry.title>>

\* C15: the step of an entry that creates a place stores the url of the
\* entry and its title, null when the title of the entry is empty, in it;
\* no step of an entry changes the title of a place that exists, so an
\* entry for the url of a place does not replace its title.
C15_TitleMapping ==
    [][(i' = i + 1 /\ pc' # "panicked") =>
          /\ \A q \in tx'.places :
                (\A p \in tx.places : p.id # q.id) =>
                    /\ q.url = UrlText(src[i'].url)
                    /\ q.title = ExpectedTitle(src[i'])
          /\ \A p \in tx.places :
                \E q \in tx'.places : q.id = p.id /\ q.title = p.title]_vars

\* an entry without a title created a place and an entry with a title was
\* recorded for it afterwards: the title of the place is null
C15_Witness ==
    /\ Live
    /\ Len(trace) >= 2
    /\ trace[1].out = "Recorded"
    /\ trace[2].out = "Recorded"
    /\ src[1].url = src[2].url
    /\ src[1].title = <<>>
    /\ src[2].title # <<>>
    /\ \A p \in snap.places : p.url # UrlText(src[1].url)
    /\ \E p \in tx.places :
          /\ p.url = UrlText(src[1].url)
          /\ p.title = None

\* C16: the step of an entry whose timestamp has a visit row in the
\* transaction writes nothing, be there a place for its url or not: it is
\* skipped, or ends in the error of the existence query; and an entry is
\* skipped only when its timestamp has a visit row.
C16_SkipWritesNothing ==
    [][(i' = i + 1) =>
          /\ (\E v \in tx.visits : v.visit_date = src[i'].time_usec) =>
                /\ tx' = tx
                /\ ~trace'[i'].wrote
                /\ trace'[i'].out =
                      IF trace'[i'].fault = "exists" THEN "Err" ELSE "Skipped"
          /\ trace'[i'].out = "Skipped" =>
                /\ tx' = tx
                /\ \E v \in tx.visits :
                      v.visit_date = src[i'].time_usec]_vars

\* an entry was skipped whose url has no place: none was created for it
C16_Witness ==
    /\ Live
    /\ \E j \in 1..Len(trace) :
          /\ trace[j].out = "Skipped"
          /\ ~trace[j].wrote
          /\ \A p \in tx.places : p.url # UrlText(src[j].url)
          /\ \E v \in tx.visits : v.visit_date = src[j].time_usec

\* the visit rows of st that reference the place p
VisitsOf(st, p) == { v \in st.visits : v.place_id = p.id }

\* visit_count is the number of visit rows of the place, and the
\* last_visit_date of a place with visits the largest of their timestamps
CountsAgree(st) ==
    \A p \in st.places :
        /\ p.visit_count = Cardinality(VisitsOf(st, p))
        /\ VisitsOf(st, p) # {} =>
              /\ p.last_visit_date # None
              /\ \E v \in VisitsOf(st, p) :
                    p.last_visit_date = Some(v.visit_date)
              /\ \A v \in VisitsOf(st, p) :
                    v.visit_date <= DateOf(p.last_visit_date)

\* C17 as stated: the aggregates and the visit rows agree in the database
\* file in every state, whatever entries were recorded, skipped or failed.
C17_CountsAgree == CountsAgree(db)

\* the same as long as no statement of an entry has failed, in the file and
\* in the transaction
C17_CleanCountsAgree ==
    (faults = 0 /\ Live) => (CountsAgree(db) /\ CountsAgree(tx))

\* the rows of st the run has inserted reference rows of st: a visit one
\* place, whose url is the one of the entry, among the first n, that was
\* recorded at its timestamp; a place one origin, whose key is the one of
\* the url of the place
References(st, n) ==
    /\ \A v \in st.visits \ db0.visits :
          /\ Cardinality({ p \in st.places : p.id = v.place_id }) = 1
          /\ \E p \in st.places, j \in 1..n :
                /\ p.id = v.place_id
                /\ trace[j].out = "Recorded"
                /\ src[j].time_usec = v.visit_date
                /\ p.url = UrlText(src[j].url)
    /\ \A p \in st.places \ db0.places :
          (\A q \in db0.places : q.id # p.id) =>
              /\ Cardinality({ o \in st.origins : o.id = p.origin_id }) = 1
              /\ \E o \in st.origins :
                    /\ o.id = p.origin_id
                    /\ <<o.prefix, o.host>> = ExpectedOrigin(p.url)

\* C18: in the database file, and in the transaction after every entry,
\* each visit row the run inserted references a place with the url of the
\* entry that produced it and each place row it inserted an origin with
\* the (prefix, host) of the url of the place; so no place row is there
\* before its origin and no visit row before its place.
C18_ReferentialIntegrity ==
    /\ References(db, committed)
    /\ Live => References(tx, Len(trace))

\* the run into an empty database is over and the file holds a visit of a
\* place of the url on port 8443, with the origin of that port
C18_Witness ==
    /\ pc = "done"
    /\ db0 = EmptyStore
    /\ \E v \in db.visits, p \in db.places, o \in db.origins :
          /\ v.place_id = p.id
          /\ p.url = t_a8443
          /\ p.origin_id = o.id
          /\ o.host = h_8443
          /\ o.prefix = p_https

====
